---------------------------- MODULE Spec2Model ----------------------------
(***************************************************************************)
(* A model of the data-pager crate: the cursor codec (src/utils.rs), the   *)
(* generic paginator (src/pager.rs) and the SQL query builder (src/sql.rs).*)
(*                                                                         *)
(* u64 values are kept at their full 64-bit width.  TLC's integers are 32  *)
(* bits wide, so a u64 is a tuple of four 16-bit limbs, least significant  *)
(* first, and the arithmetic the code does on u64 (+, -, comparison,       *)
(* to_string, parse) is done on limbs.                                     *)
(***************************************************************************)
EXTENDS Integers, Sequences, FiniteSets, TLC

(***************************************************************************)
(* Bounds of the model.                                                    *)
(***************************************************************************)
\* offsets 0..MaxNear and u64::MAX-MaxNear..u64::MAX are enumerated
MaxNear == 3
\* the longest collection handed to PageInfo::get_pager
MaxLen == 4
\* the largest table the SQL paging cycle runs over
MaxRows == 7
\* the largest page_size of a query in the SQL paging cycle
MaxPage == 3
\* the number of next_page / prev_page calls followed from one PageInfo
MaxTurns == 2

(***************************************************************************)
(* u64 on limbs.                                                           *)
(***************************************************************************)
Base == 2^16

Zero == <<0, 0, 0, 0>>

U64Max == <<Base - 1, Base - 1, Base - 1, Base - 1>>

\* n as u64, for 0 <= n < 2^31
FromNat(n) == <<n % Base, n \div Base, 0, 0>>

\* the number a u64 below 2^30 stands for
ToNat(a) == a[2] * Base + a[1]

\* a < b
Lt(a, b) ==
    \/ a[4] < b[4]
    \/ a[4] = b[4] /\ a[3] < b[3]
    \/ a[4] = b[4] /\ a[3] = b[3] /\ a[2] < b[2]
    \/ a[4] = b[4] /\ a[3] = b[3] /\ a[2] = b[2] /\ a[1] < b[1]

Le(a, b) == a = b \/ Lt(a, b)

\* a + b modulo 2^64, and whether the sum left the u64 range
Add(a, b) ==
    LET s1 == a[1] + b[1]
        s2 == a[2] + b[2] + (s1 \div Base)
        s3 == a[3] + b[3] + (s2 \div Base)
        s4 == a[4] + b[4] + (s3 \div Base)
    IN  [val |-> <<s1 % Base, s2 % Base, s3 % Base, s4 % Base>>,
         overflow |-> s4 >= Base]

\* a - b modulo 2^64, and whether the difference left the u64 range
Sub(a, b) ==
    LET d1 == a[1] - b[1]
        b1 == IF d1 < 0 THEN 1 ELSE 0
        d2 == a[2] - b[2] - b1
        b2 == IF d2 < 0 THEN 1 ELSE 0
        d3 == a[3] - b[3] - b2
        b3 == IF d3 < 0 THEN 1 ELSE 0
        d4 == a[4] - b[4] - b3
    IN  [val |-> <<d1 % Base, d2 % Base, d3 % Base, d4 % Base>>,
         overflow |-> d4 < 0]

\* a divided by ten: quotient and remainder
DivMod10(a) ==
    LET c4 == a[4]
        c3 == (c4 % 10) * Base + a[3]
        c2 == (c3 % 10) * Base + a[2]
        c1 == (c2 % 10) * Base + a[1]
    IN  [quot |-> <<c1 \div 10, c2 \div 10, c3 \div 10, c4 \div 10>>,
         rem |-> c1 % 10]

\* a * 10 + d (checked_mul then checked_add), and whether it left the u64 range
MulAdd10(a, d) ==
    LET m1 == a[1] * 10 + d
        m2 == a[2] * 10 + (m1 \div Base)
        m3 == a[3] * 10 + (m2 \div Base)
        m4 == a[4] * 10 + (m3 \div Base)
    IN  [val |-> <<m1 % Base, m2 % Base, m3 % Base, m4 % Base>>,
         overflow |-> m4 >= Base]

(***************************************************************************)
(* Option<T>: the empty tuple is None, a one-element tuple is Some.        *)
(***************************************************************************)
None == <<>>

Some(v) == <<v>>

IsSome(o) == Len(o) = 1

unwrap_or(o, d) == IF IsSome(o) THEN o[1] ELSE d

(***************************************************************************)
(* The cursor codec, src/utils.rs.  Text is a sequence of bytes.           *)
(***************************************************************************)
RECURSIVE to_string(_)
\* u64::to_string: the decimal digits, most significant first, no leading zero
to_string(a) ==
    LET dm == DivMod10(a)
    IN  IF dm.quot = Zero
        THEN <<48 + dm.rem>>
        ELSE to_string(dm.quot) \o <<48 + dm.rem>>

\* the URL-safe alphabet: A-Z a-z 0-9 - _
Symbol(i) ==
    IF i < 26 THEN 65 + i
    ELSE IF i < 52 THEN 97 + (i - 26)
    ELSE IF i < 62 THEN 48 + (i - 52)
    ELSE IF i = 62 THEN 45
    ELSE 95

\* the 6-bit value of a byte of the alphabet, -1 for any other byte
SymbolValue(c) ==
    IF c >= 65 /\ c <= 90 THEN c - 65
    ELSE IF c >= 97 /\ c <= 122 THEN c - 97 + 26
    ELSE IF c >= 48 /\ c <= 57 THEN c - 48 + 52
    ELSE IF c = 45 THEN 62
    ELSE IF c = 95 THEN 63
    ELSE -1

RECURSIVE b64_encode(_)
\* URL_SAFE_NO_PAD.encode: three bytes to four symbols, a last group of one
\* or two bytes to two or three symbols, no padding
b64_encode(input) ==
    IF Len(input) = 0 THEN <<>>
    ELSE IF Len(input) = 1 THEN
        <<Symbol(input[1] \div 4), Symbol((input[1] % 4) * 16)>>
    ELSE IF Len(input) = 2 THEN
        <<Symbol(input[1] \div 4),
          Symbol((input[1] % 4) * 16 + (input[2] \div 16)),
          Symbol((input[2] % 16) * 4)>>
    ELSE
        <<Symbol(input[1] \div 4),
          Symbol((input[1] % 4) * 16 + (input[2] \div 16)),
          Symbol((input[2] % 16) * 4 + (input[3] \div 64)),
          Symbol(input[3] % 64)>>
        \o b64_encode(SubSeq(input, 4, Len(input)))

RECURSIVE DecodeGroups(_)
\* the bytes of a sequence of 6-bit values; a last group of two or three
\* values gives one or two bytes
DecodeGroups(v) ==
    IF Len(v) < 2 THEN <<>>
    ELSE IF Len(v) = 2 THEN <<v[1] * 4 + (v[2] \div 16)>>
    ELSE IF Len(v) = 3 THEN
        <<v[1] * 4 + (v[2] \div 16), (v[2] % 16) * 16 + (v[3] \div 4)>>
    ELSE
        <<v[1] * 4 + (v[2] \div 16),
          (v[2] % 16) * 16 + (v[3] \div 4),
          (v[3] % 4) * 64 + v[4]>>
        \o DecodeGroups(SubSeq(v, 5, Len(v)))

\* the bits of the last symbol that belong to no output byte
TrailingBits(v) ==
    IF Len(v) % 4 = 2 THEN v[Len(v)] % 16
    ELSE IF Len(v) % 4 = 3 THEN v[Len(v)] % 4
    ELSE 0

\* the capacity of decode_u64's buffer
BufferLen == 32

\* URL_SAFE_NO_PAD.decode_slice into a buffer of `capacity` bytes: the
\* buffer must hold the estimate of three bytes for every started group of
\* four symbols; every byte must be of the alphabet ('=' is not); a length
\* of 1 modulo 4 and non-zero trailing bits are errors
b64_decode(s, capacity) ==
    LET v == [i \in 1..Len(s) |-> SymbolValue(s[i])]
    IN  IF capacity < ((Len(s) + 3) \div 4) * 3
        THEN [ok |-> FALSE, err |-> "Base64Decode", bytes |-> <<>>]
        ELSE IF \E i \in 1..Len(s) : v[i] < 0
        THEN [ok |-> FALSE, err |-> "Base64Decode", bytes |-> <<>>]
        ELSE IF Len(s) % 4 = 1
        THEN [ok |-> FALSE, err |-> "Base64Decode", bytes |-> <<>>]
        ELSE IF TrailingBits(v) # 0
        THEN [ok |-> FALSE, err |-> "Base64Decode", bytes |-> <<>>]
        ELSE [ok |-> TRUE, err |-> "", bytes |-> DecodeGroups(v)]

IsCont(b) == b >= 128 /\ b <= 191

RECURSIVE from_utf8(_)
\* std::str::from_utf8: whether the bytes are well-formed UTF-8
from_utf8(b) ==
    IF Len(b) = 0 THEN TRUE
    ELSE IF b[1] < 128 THEN from_utf8(Tail(b))
    ELSE IF b[1] >= 194 /\ b[1] <= 223 THEN
        /\ Len(b) >= 2 /\ IsCont(b[2])
        /\ from_utf8(SubSeq(b, 3, Len(b)))
    ELSE IF b[1] >= 224 /\ b[1] <= 239 THEN
        /\ Len(b) >= 3 /\ IsCont(b[2]) /\ IsCont(b[3])
        /\ (b[1] = 224 => b[2] >= 160)
        /\ (b[1] = 237 => b[2] <= 159)
        /\ from_utf8(SubSeq(b, 4, Len(b)))
    ELSE IF b[1] >= 240 /\ b[1] <= 244 THEN
        /\ Len(b) >= 4 /\ IsCont(b[2]) /\ IsCont(b[3]) /\ IsCont(b[4])
        /\ (b[1] = 240 => b[2] >= 144)
        /\ (b[1] = 244 => b[2] <= 143)
        /\ from_utf8(SubSeq(b, 5, Len(b)))
    ELSE FALSE

RECURSIVE ParseDigits(_, _)
\* the digits of str::parse::<u64>, folded from the left on acc
ParseDigits(digits, acc) ==
    IF Len(digits) = 0 THEN [ok |-> TRUE, val |-> acc]
    ELSE IF digits[1] < 48 \/ digits[1] > 57 THEN [ok |-> FALSE, val |-> Zero]
    ELSE LET m == MulAdd10(acc, digits[1] - 48)
         IN  IF m.overflow THEN [ok |-> FALSE, val |-> Zero]
             ELSE ParseDigits(Tail(digits), m.val)

\* str::parse::<u64>: an optional '+', then one or more decimal digits whose
\* value fits in 64 bits
parse_u64(s) ==
    IF Len(s) = 0 THEN [ok |-> FALSE, val |-> Zero]
    ELSE IF (s[1] = 43 \/ s[1] = 45) /\ Len(s) = 1 THEN [ok |-> FALSE, val |-> Zero]
    ELSE IF s[1] = 43 THEN ParseDigits(Tail(s), Zero)
    ELSE ParseDigits(s, Zero)

\* encode u64 to base64 string
encode_u64(input) == b64_encode(to_string(input))

\* decode_u64 with a buffer of `capacity` bytes
DecodeWith(s, capacity) ==
    LET d == b64_decode(s, capacity)
    IN  IF ~d.ok THEN [ok |-> FALSE, err |-> d.err, val |-> Zero]
        ELSE IF ~from_utf8(d.bytes)
        THEN [ok |-> FALSE, err |-> "InvalidUtf8", val |-> Zero]
        ELSE LET n == parse_u64(d.bytes)
             IN  IF n.ok THEN [ok |-> TRUE, err |-> "", val |-> n.val]
                 ELSE [ok |-> FALSE, err |-> "InvalidNumber", val |-> Zero]

\* a buffer of 20 bytes, the digits of u64::MAX, in place of 32
decode_u64_short(s) == DecodeWith(s, 20)

\* decode base64 string to u64
decode_u64(s) == DecodeWith(s, BufferLen)

(***************************************************************************)
(* The generic paginator, src/pager.rs.  An arithmetic overflow aborts the *)
(* call when the build checks overflow (`checks`, the debug profile) and   *)
(* wraps modulo 2^64 when it does not (the release profile).               *)
(***************************************************************************)
\* std::cmp::max
max(a, b) == IF Lt(b, a) THEN a ELSE b

\* Pager::default()
NoPager == [prev |-> None, next |-> None, total |-> None]

\* Container::pop: the collection without its last element
pop(d) == IF Len(d) = 0 THEN d ELSE SubSeq(d, 1, Len(d) - 1)

\* the prev of PageInfo::get_pager
PagerPrev(self, checks) ==
    IF IsSome(self.cursor) /\ Lt(Zero, self.cursor[1])
    THEN LET diff == Sub(self.cursor[1], self.page_size)
         IN  [panic |-> checks /\ diff.overflow,
              val |-> Some(max(Zero, diff.val))]
    ELSE [panic |-> FALSE, val |-> None]

\* the has_next of PageInfo::get_pager
HasNext(self, d) == Lt(self.page_size, FromNat(Len(d)))

\* the next of PageInfo::get_pager
PagerNext(self, d, checks) ==
    IF HasNext(self, d)
    THEN LET sum == Add(unwrap_or(self.cursor, Zero), self.page_size)
         IN  [panic |-> checks /\ sum.overflow, val |-> Some(sum.val)]
    ELSE [panic |-> FALSE, val |-> None]

\* PageInfo::get_pager: the Pager, the collection as the call leaves it, and
\* whether the call aborted (prev is computed first, before the pop)
PageInfo_get_pager(self, d, checks) ==
    LET prev == PagerPrev(self, checks)
        next == PagerNext(self, d, checks)
    IN  IF prev.panic
        THEN [panic |-> TRUE, pager |-> NoPager, data |-> d]
        ELSE IF next.panic
        THEN [panic |-> TRUE, pager |-> NoPager, data |-> pop(d)]
        ELSE [panic |-> FALSE,
              pager |-> [prev |-> prev.val, next |-> next.val, total |-> None],
              data |-> IF HasNext(self, d) THEN pop(d) ELSE d]

\* PageInfo::next_page
PageInfo_next_page(self, pg) ==
    IF IsSome(pg.next)
    THEN Some([cursor |-> pg.next, page_size |-> self.page_size])
    ELSE None

\* PageInfo::prev_page
PageInfo_prev_page(self, pg) ==
    IF IsSome(pg.prev)
    THEN Some([cursor |-> pg.prev, page_size |-> self.page_size])
    ELSE None

(***************************************************************************)
(* The SQL query builder, src/sql.rs.                                      *)
(***************************************************************************)
MAX_PAGE_SIZE == 100

\* the page_size normalize() gives a query that asks for none
DefaultPageSize == 10

\* SqlQuery::default()
DefaultQuery ==
    [source |-> "", projection |-> <<>>, filter |-> None, order |-> None,
     cursor |-> None, page_size |-> Zero]

\* SqlQuery::get_cursor: a token that does not decode is no cursor
SqlQuery_get_cursor(self) ==
    IF IsSome(self.cursor) /\ decode_u64(self.cursor[1]).ok
    THEN Some(decode_u64(self.cursor[1]).val)
    ELSE None

\* SqlQuery::page_info
SqlQuery_page_info(self) ==
    [cursor |-> SqlQuery_get_cursor(self), page_size |-> self.page_size]

\* SqlQuery::projection
SqlQuery_projection(self) ==
    IF Len(self.projection) = 0 THEN <<"*">> ELSE self.projection

\* middle_plus from the decoded cursor in place of the cursor field
MiddlePlusDecoded(self) == IF SqlQuery_get_cursor(self) = None THEN 0 ELSE 1

\* the middle_plus of SqlQuery::to_sql
MiddlePlus(self) == IF self.cursor = None THEN 0 ELSE 1

\* the limit of SqlQuery::to_sql: page_size + 1 + middle_plus
SqlLimit(self, checks) ==
    LET one == Add(self.page_size, FromNat(1))
        two == Add(one.val, FromNat(MiddlePlus(self)))
    IN  [panic |-> checks /\ (one.overflow \/ two.overflow), val |-> two.val]

\* the offset of SqlQuery::to_sql
SqlOffset(self) == unwrap_or(SqlQuery_get_cursor(self), Zero)

\* the statement no call has rendered
NoSql ==
    [select |-> <<>>, from |-> "", where |-> None, order_by |-> None,
     limit |-> <<>>, offset |-> <<>>]

\* SqlQuery::to_sql: the clauses of the statement, an absent WHERE or
\* ORDER BY left out, LIMIT and OFFSET as their decimal text
SqlQuery_to_sql(self, checks) ==
    LET limit == SqlLimit(self, checks)
    IN  IF limit.panic
        THEN [panic |-> TRUE, sql |-> NoSql]
        ELSE [panic |-> FALSE,
              sql |-> [select |-> SqlQuery_projection(self),
                       from |-> self.source,
                       where |-> self.filter,
                       order_by |-> self.order,
                       limit |-> to_string(limit.val),
                       offset |-> to_string(SqlOffset(self))]]

\* SqlQuery::get_pager
SqlQuery_get_pager(self, d, checks) ==
    PageInfo_get_pager(SqlQuery_page_info(self), d, checks)

\* next_page turning to pager.prev in place of pager.next
SqlQuery_next_page_prev(self, pg) ==
    LET page_info == PageInfo_prev_page(SqlQuery_page_info(self), pg)
    IN  IF IsSome(page_info)
        THEN Some([self EXCEPT
                    !.cursor = Some(encode_u64(page_info[1].cursor[1]))])
        ELSE None

\* SqlQuery::next_page
SqlQuery_next_page(self, pg) ==
    LET page_info == PageInfo_next_page(SqlQuery_page_info(self), pg)
    IN  IF IsSome(page_info)
        THEN Some([source |-> self.source,
                   projection |-> self.projection,
                   filter |-> self.filter,
                   order |-> self.order,
                   cursor |-> IF IsSome(page_info[1].cursor)
                              THEN Some(encode_u64(page_info[1].cursor[1]))
                              ELSE None,
                   page_size |-> page_info[1].page_size])
        ELSE None

\* SqlQuery::normalize
SqlQuery_normalize(self) ==
    IF self.page_size = Zero
    THEN [self EXCEPT !.page_size = FromNat(DefaultPageSize)]
    ELSE IF Lt(FromNat(MAX_PAGE_SIZE), self.page_size)
    THEN [self EXCEPT !.page_size = FromNat(MAX_PAGE_SIZE)]
    ELSE self

\* validate accepting a page size of MAX_PAGE_SIZE (<= in place of <)
SqlQuery_validate_inclusive(self) ==
    IF ~(Lt(Zero, self.page_size) /\ Le(self.page_size, FromNat(MAX_PAGE_SIZE)))
    THEN [ok |-> FALSE, err |-> "InvalidPageSize", size |-> self.page_size]
    ELSE IF self.source = ""
    THEN [ok |-> FALSE, err |-> "InvalidSource", size |-> Zero]
    ELSE [ok |-> TRUE, err |-> "", size |-> Zero]

\* validate checking the source before the page size
SqlQuery_validate_source_first(self) ==
    IF self.source = ""
    THEN [ok |-> FALSE, err |-> "InvalidSource", size |-> Zero]
    ELSE IF ~(Lt(Zero, self.page_size) /\ Lt(self.page_size, FromNat(MAX_PAGE_SIZE)))
    THEN [ok |-> FALSE, err |-> "InvalidPageSize", size |-> self.page_size]
    ELSE [ok |-> TRUE, err |-> "", size |-> Zero]

\* SqlQuery::validate: the page size is checked before the source
SqlQuery_validate(self) ==
    IF ~(Lt(Zero, self.page_size) /\ Lt(self.page_size, FromNat(MAX_PAGE_SIZE)))
    THEN [ok |-> FALSE, err |-> "InvalidPageSize", size |-> self.page_size]
    ELSE IF self.source = ""
    THEN [ok |-> FALSE, err |-> "InvalidSource", size |-> Zero]
    ELSE [ok |-> TRUE, err |-> "", size |-> Zero]

\* the builder nothing was set on; a field not set is None and takes its
\* value from SqlQuery::default().  The setters of projection, filter and
\* order are left out: normalize and validate read none of these fields.
NoBuilder == [source |-> None, cursor |-> None, page_size |-> None]

\* SqlQueryBuilder::private_build
private_build(b) ==
    [DefaultQuery EXCEPT
        !.source = unwrap_or(b.source, DefaultQuery.source),
        !.cursor = unwrap_or(b.cursor, DefaultQuery.cursor),
        !.page_size = unwrap_or(b.page_size, DefaultQuery.page_size)]

\* the result of no build
NoBuild == [ok |-> FALSE, err |-> "", size |-> Zero, query |-> DefaultQuery]

\* SqlQueryBuilder::build: normalize, then validate
SqlQueryBuilder_build(b) ==
    LET q == SqlQuery_normalize(private_build(b))
        v == SqlQuery_validate(q)
    IN  [ok |-> v.ok, err |-> v.err, size |-> v.size,
         query |-> IF v.ok THEN q ELSE DefaultQuery]

(***************************************************************************)
(* The execution of a rendered statement by the caller's engine: rows      *)
(* OFFSET+1 .. OFFSET+LIMIT of a table holding rows 1..n in order.         *)
(***************************************************************************)
Fetch(stmt, n) ==
    LET lim == parse_u64(stmt.limit).val
        off == parse_u64(stmt.offset).val
    IN  IF Le(FromNat(n), off) THEN <<>>
        ELSE LET o == ToNat(off)
                 cnt == IF Lt(FromNat(n - o), lim) THEN n - o ELSE ToNat(lim)
             IN  [i \in 1..cnt |-> o + i]

\* generate_test_ids(start, end)
generate_test_ids(start, end) == [i \in 1..(end - start + 1) |-> start + i - 1]

(***************************************************************************)
(* The values the model enumerates.                                        *)
(***************************************************************************)
NearZero == {FromNat(n) : n \in 0..MaxNear}

NearMax == {Sub(U64Max, FromNat(n)).val : n \in 0..MaxNear}

RECURSIVE Pow10(_)
Pow10(d) == IF d = 0 THEN FromNat(1) ELSE MulAdd10(Pow10(d - 1), 0).val

\* every offset with a new number of digits, and the one before it
DigitEdges ==
    {Pow10(d) : d \in 1..19} \cup {Sub(Pow10(d), FromNat(1)).val : d \in 1..19}

\* the offsets where a limb carries
LimbEdges ==
    {<<Base - 1, 0, 0, 0>>, <<0, 1, 0, 0>>, <<Base - 1, Base - 1, 0, 0>>,
     <<0, 0, 1, 0>>, <<Base - 1, Base - 1, Base - 1, 0>>, <<0, 0, 0, 1>>}

CodecOffsets == NearZero \cup NearMax \cup DigitEdges \cup LimbEdges

\* tokens encode_u64 never produces: "!" (not of the alphabet), "A" (an
\* impossible length), "MTB" (trailing bits), "MQ==" (padded), "__8" (the
\* bytes FF FF), "YWJj" ("abc"), "LTE" ("-1"), "" (no digit), the encoding of
\* 18446744073709551616 (one above u64::MAX) and a token of 44 symbols (more
\* than the buffer holds)
ForeignTokens ==
    {<<33>>, <<65>>, <<77, 84, 66>>, <<77, 81, 61, 61>>, <<95, 95, 56>>,
     <<89, 87, 74, 106>>, <<76, 84, 69>>, <<>>,
     b64_encode(to_string(Sub(U64Max, FromNat(9)).val) \o <<49, 54>>),
     [i \in 1..44 |-> 77]}

\* "KzU": the text "+5", which parse::<u64> reads as 5
PlusToken == <<75, 122, 85>>

PageInfos ==
    [cursor : {None} \cup {Some(c) : c \in NearZero \cup NearMax},
     page_size : NearZero \cup NearMax]

\* the two queries of the tests of src/sql.rs, without cursor and page size
Shapes ==
    {[source |-> "users", projection |-> <<>>, filter |-> None, order |-> None],
     [source |-> "users", projection |-> <<"id", "name">>,
      filter |-> Some("id > 10"), order |-> Some("id DESC")]}

CursorTokens ==
    {encode_u64(c) : c \in NearZero \cup NearMax} \cup ForeignTokens \cup {PlusToken}

\* the queries the paging cycle starts from: a SqlQuery is a plain struct
\* with public fields, so its cursor and page_size are any values
Queries ==
    {[source |-> sh.source, projection |-> sh.projection, filter |-> sh.filter,
      order |-> sh.order, cursor |-> c, page_size |-> ps] :
        sh \in Shapes,
        c \in {None} \cup {Some(t) : t \in CursorTokens},
        ps \in {FromNat(n) : n \in 1..MaxPage} \cup NearMax}

\* the page sizes asked of the builder
BuildPageSizes ==
    NearZero \cup NearMax \cup {FromNat(DefaultPageSize)}
    \cup {FromNat(n) : n \in (MAX_PAGE_SIZE - MaxNear)..(MAX_PAGE_SIZE + MaxNear)}
    \cup {<<Base - 1, 0, 0, 0>>, <<0, 1, 0, 0>>}

(***************************************************************************)
(* The state.                                                              *)
(***************************************************************************)
VARIABLES
    overflow_checks, \* whether the build checks arithmetic overflow
    pc,              \* where the caller is
    page,            \* the PageInfo of the caller of the generic paginator
    turns,           \* the next_page / prev_page calls made on it
    fetched,         \* the rows as fetched, before get_pager
    data,            \* the collection handed to get_pager
    pager,           \* the Pager of the last get_pager
    builder,         \* the SqlQueryBuilder
    built,           \* the result of the last build
    first,           \* the SqlQuery the paging cycle started from
    query,           \* the SqlQuery of the page the cycle is at
    next_query,      \* the result of the last SqlQuery::next_page
    sql,             \* the statement of the last to_sql
    table,           \* the number of rows of the table
    pages,           \* the rows of every page so far, in page order
    offset,          \* the offset given to the codec
    token,           \* the cursor token
    decoded          \* the result of the last decode_u64

vars ==
    <<overflow_checks, pc, page, turns, fetched, data, pager, builder, built,
      first, query, next_query, sql, table, pages, offset, token, decoded>>

pagerVars == <<page, turns, fetched, data, pager>>

buildVars == <<builder, built>>

sqlVars == <<first, query, next_query, sql, table, pages>>

codecVars == <<offset, token, decoded>>

NoDecoded == [ok |-> FALSE, err |-> "", val |-> Zero]

NoPage == [cursor |-> None, page_size |-> Zero]

PagerIdle ==
    /\ page = NoPage /\ turns = 0 /\ fetched = <<>> /\ data = <<>>
    /\ pager = NoPager

BuildIdle == builder = NoBuilder /\ built = NoBuild

SqlIdle ==
    /\ first = DefaultQuery /\ query = DefaultQuery /\ next_query = None
    /\ sql = NoSql
    /\ table = 0 /\ pages = <<>>

CodecIdle == offset = Zero /\ token = <<>> /\ decoded = NoDecoded

(***************************************************************************)
(* The generic paginator on its own: a PageInfo, a collection of any       *)
(* length, get_pager, then next_page or prev_page and the next fetch.      *)
(***************************************************************************)
PageInit ==
    /\ overflow_checks \in BOOLEAN
    /\ pc = "fetched"
    /\ page \in PageInfos
    /\ turns = 0
    /\ fetched \in {generate_test_ids(1, n) : n \in 0..MaxLen}
    /\ data = fetched
    /\ pager = NoPager
    /\ BuildIdle /\ SqlIdle /\ CodecIdle

PageGetPager ==
    /\ pc = "fetched"
    /\ LET r == PageInfo_get_pager(page, data, overflow_checks)
       IN  /\ pager' = r.pager
           /\ data' = r.data
           /\ pc' = IF r.panic THEN "get_pager aborted" ELSE "paged"
    /\ UNCHANGED <<overflow_checks, page, turns, fetched>>
    /\ UNCHANGED <<buildVars, sqlVars, codecVars>>

PageNextPage ==
    /\ pc = "paged"
    /\ turns < MaxTurns
    /\ IsSome(PageInfo_next_page(page, pager))
    /\ page' = PageInfo_next_page(page, pager)[1]
    /\ turns' = turns + 1
    /\ pc' = "turned"
    /\ UNCHANGED <<overflow_checks, fetched, data, pager>>
    /\ UNCHANGED <<buildVars, sqlVars, codecVars>>

PagePrevPage ==
    /\ pc = "paged"
    /\ turns < MaxTurns
    /\ IsSome(PageInfo_prev_page(page, pager))
    /\ page' = PageInfo_prev_page(page, pager)[1]
    /\ turns' = turns + 1
    /\ pc' = "turned"
    /\ UNCHANGED <<overflow_checks, fetched, data, pager>>
    /\ UNCHANGED <<buildVars, sqlVars, codecVars>>

\* the caller fetches the rows of the page it turned to
PageFetch ==
    /\ pc = "turned"
    /\ \E n \in 0..MaxLen :
        /\ fetched' = generate_test_ids(1, n)
        /\ data' = generate_test_ids(1, n)
    /\ pc' = "fetched"
    /\ UNCHANGED <<overflow_checks, page, turns, pager>>
    /\ UNCHANGED <<buildVars, sqlVars, codecVars>>

PageNext == PageGetPager \/ PageNextPage \/ PagePrevPage \/ PageFetch

PageSpec == PageInit /\ [][PageNext]_vars

(***************************************************************************)
(* The builder: setters in any order, then build.                          *)
(***************************************************************************)
BuildInit ==
    /\ overflow_checks = FALSE
    /\ pc = "building"
    /\ builder = NoBuilder
    /\ built = NoBuild
    /\ PagerIdle /\ SqlIdle /\ CodecIdle

BuilderSource ==
    /\ \E s \in {"", "users"} : builder' = [builder EXCEPT !.source = Some(s)]
    /\ pc' = "building"
    /\ UNCHANGED <<overflow_checks, built, pagerVars, sqlVars, codecVars>>

BuilderPageSize ==
    /\ \E p \in BuildPageSizes : builder' = [builder EXCEPT !.page_size = Some(p)]
    /\ pc' = "building"
    /\ UNCHANGED <<overflow_checks, built, pagerVars, sqlVars, codecVars>>

BuilderCursor ==
    /\ builder' = [builder EXCEPT !.cursor = Some(Some(encode_u64(FromNat(DefaultPageSize))))]
    /\ pc' = "building"
    /\ UNCHANGED <<overflow_checks, built, pagerVars, sqlVars, codecVars>>

Build ==
    /\ pc = "building"
    /\ built' = SqlQueryBuilder_build(builder)
    /\ pc' = "built"
    /\ UNCHANGED <<overflow_checks, builder, pagerVars, sqlVars, codecVars>>

BuildNext == BuilderSource \/ BuilderPageSize \/ BuilderCursor \/ Build

BuildSpec == BuildInit /\ [][BuildNext]_vars

(***************************************************************************)
(* The paging cycle of a SqlQuery over a table of rows 1..table: to_sql,   *)
(* the fetch of the rows the statement selects, get_pager, next_page.      *)
(***************************************************************************)
SqlInit ==
    /\ overflow_checks \in BOOLEAN
    /\ pc = "built"
    /\ first \in Queries
    /\ query = first
    /\ next_query = None
    /\ sql = NoSql
    /\ table \in 0..MaxRows
    /\ pages = <<>>
    /\ fetched = <<>> /\ data = <<>> /\ pager = NoPager
    /\ page = NoPage /\ turns = 0
    /\ BuildIdle /\ CodecIdle

SqlToSql ==
    /\ pc = "built"
    /\ LET r == SqlQuery_to_sql(query, overflow_checks)
       IN  /\ sql' = r.sql
           /\ pc' = IF r.panic THEN "to_sql aborted" ELSE "rendered"
    /\ UNCHANGED <<overflow_checks, first, query, next_query, table, pages>>
    /\ UNCHANGED <<pagerVars, buildVars, codecVars>>

\* the caller runs the statement and collects the rows it returns
SqlFetch ==
    /\ pc = "rendered"
    /\ fetched' = Fetch(sql, table)
    /\ data' = Fetch(sql, table)
    /\ pc' = "fetched"
    /\ UNCHANGED <<overflow_checks, page, turns, pager>>
    /\ UNCHANGED <<sqlVars, buildVars, codecVars>>

SqlGetPager ==
    /\ pc = "fetched"
    /\ LET r == SqlQuery_get_pager(query, data, overflow_checks)
       IN  /\ pager' = r.pager
           /\ data' = r.data
           /\ pages' = IF r.panic THEN pages ELSE pages \o r.data
           /\ pc' = IF r.panic THEN "get_pager aborted" ELSE "paged"
    /\ UNCHANGED <<overflow_checks, page, turns, fetched>>
    /\ UNCHANGED <<first, query, next_query, sql, table>>
    /\ UNCHANGED <<buildVars, codecVars>>

SqlNextPage ==
    /\ pc = "paged"
    /\ next_query' = SqlQuery_next_page(query, pager)
    /\ pc' = "turned"
    /\ UNCHANGED <<overflow_checks, first, query, sql, table, pages>>
    /\ UNCHANGED <<pagerVars, buildVars, codecVars>>

\* the caller goes on with the query of the next page
SqlAdvance ==
    /\ pc = "turned"
    /\ IsSome(next_query)
    /\ query' = next_query[1]
    /\ pc' = "built"
    /\ UNCHANGED <<overflow_checks, first, next_query, sql, table, pages>>
    /\ UNCHANGED <<pagerVars, buildVars, codecVars>>

SqlNext == SqlToSql \/ SqlFetch \/ SqlGetPager \/ SqlNextPage \/ SqlAdvance

SqlSpec == SqlInit /\ [][SqlNext]_vars

(***************************************************************************)
(* The codec: an offset is encoded and the token decoded; a token from     *)
(* elsewhere is decoded.                                                   *)
(***************************************************************************)
CodecInit ==
    /\ overflow_checks = FALSE
    /\ \/ pc = "offset" /\ offset \in CodecOffsets /\ token = <<>>
       \/ pc = "foreign" /\ offset = Zero /\ token \in ForeignTokens \cup {PlusToken}
    /\ decoded = NoDecoded
    /\ PagerIdle /\ BuildIdle /\ SqlIdle

CodecEncode ==
    /\ pc = "offset"
    /\ token' = encode_u64(offset)
    /\ pc' = "encoded"
    /\ UNCHANGED <<overflow_checks, offset, decoded>>
    /\ UNCHANGED <<pagerVars, buildVars, sqlVars>>

CodecDecode ==
    /\ pc \in {"encoded", "foreign"}
    /\ decoded' = decode_u64(token)
    /\ pc' = IF pc = "encoded" THEN "decoded" ELSE "read"
    /\ UNCHANGED <<overflow_checks, offset, token>>
    /\ UNCHANGED <<pagerVars, buildVars, sqlVars>>

CodecNext == CodecEncode \/ CodecDecode

CodecSpec == CodecInit /\ [][CodecNext]_vars

(***************************************************************************)
(* The claims.                                                             *)
(***************************************************************************)
\* v = a + k as numbers, for a small k
IsSum(v, a, k) == Le(a, v) /\ Sub(v, a).val = FromNat(k)

\* the decimal text reads as the number v
ReadsAs(text, v) ==
    /\ Len(text) > 0 /\ text[1] # 43
    /\ parse_u64(text).ok /\ parse_u64(text).val = v

\* cursor - page_size clamped to a minimum of 0, absent without a cursor
\* above 0
ClampedPrev(self) ==
    IF self.cursor = None \/ self.cursor = Some(Zero) THEN None
    ELSE IF Le(self.cursor[1], self.page_size) THEN Some(Zero)
    ELSE Some(Sub(self.cursor[1], self.page_size).val)

\* C1: for every PageInfo with page_size >= 1, get_pager returns prev =
\* absent when the cursor is absent or 0 and otherwise cursor - page_size
\* clamped to a minimum of 0, and the subtraction neither wraps nor aborts
\* the call (an abort in the subtraction leaves the collection untouched).
C1_PrevClamped ==
    Lt(Zero, page.page_size) =>
        /\ pc = "paged" => pager.prev = ClampedPrev(page)
        /\ ~(pc = "get_pager aborted" /\ data = fetched)

\* C2: after get_pager, a collection longer than page_size has lost exactly
\* its last element and next = (cursor or 0) + page_size; a collection no
\* longer than page_size is unchanged and next is absent; total is absent.
\* Stated for the PageInfos whose (cursor or 0) + page_size fits in 64 bits,
\* where the sum is a u64.
C2_NextAndPop ==
    (/\ pc \in {"paged", "get_pager aborted"}
     /\ ~Add(unwrap_or(page.cursor, Zero), page.page_size).overflow) =>
        /\ pc = "paged"
        /\ pager.total = None
        /\ IF Lt(page.page_size, FromNat(Len(fetched)))
           THEN /\ data = SubSeq(fetched, 1, Len(fetched) - 1)
                /\ IsSome(pager.next)
                /\ Le(unwrap_or(page.cursor, Zero), pager.next[1])
                /\ Sub(pager.next[1], unwrap_or(page.cursor, Zero)).val
                        = page.page_size
           ELSE /\ data = fetched
                /\ pager.next = None

\* C3: when the collection holds the rows the query's own statement selects,
\* get_pager leaves at most page_size rows in it, and exactly page_size when
\* the pager has a next: on the first page (no cursor) and on every page
\* reached from it through next_page.
C3_PageHoldsPageSize ==
    (pc = "paged" /\ first.cursor = None) =>
        /\ Le(FromNat(Len(data)), query.page_size)
        /\ IsSome(pager.next) => FromNat(Len(data)) = query.page_size

\* the offset a query's cursor stands for: 0 when absent or undecodable
CursorOffset(self) ==
    IF IsSome(self.cursor) /\ decode_u64(self.cursor[1]).ok
    THEN decode_u64(self.cursor[1]).val
    ELSE Zero

\* LIMIT is page_size + 1 without a cursor field and page_size + 2 with one,
\* OFFSET is the decoded cursor or 0
LimitOffsetRendered ==
    /\ pc = "rendered"
    /\ \E lim \in {parse_u64(sql.limit).val} :
        /\ ReadsAs(sql.limit, lim)
        /\ IsSum(lim, query.page_size, IF query.cursor = None THEN 1 ELSE 2)
    /\ ReadsAs(sql.offset, CursorOffset(query))

\* C4 as stated: for every SqlQuery, to_sql renders LIMIT = page_size + 1
\* when the cursor field is absent and page_size + 2 when it is present, and
\* OFFSET = the decoded cursor, or 0 when absent or undecodable.
C4_LimitOffsetEveryQuery ==
    pc \in {"rendered", "to_sql aborted"} => LimitOffsetRendered

\* page_size + 1, and one more with a cursor field, is at most u64::MAX
LimitFits(self) ==
    Le(self.page_size,
       Sub(U64Max, FromNat(IF self.cursor = None THEN 1 ELSE 2)).val)

\* C4 amended: the same, for every SqlQuery whose LIMIT fits in 64 bits
\* (page_size <= u64::MAX - 1 without a cursor field, <= u64::MAX - 2 with
\* one), which every query build returns does.
C4_LimitOffset ==
    (pc \in {"rendered", "to_sql aborted"} /\ LimitFits(query))
        => LimitOffsetRendered

\* a query with an undecodable cursor token was rendered
C4_Witness ==
    /\ pc = "rendered"
    /\ IsSome(query.cursor) /\ ~decode_u64(query.cursor[1]).ok
    /\ query.page_size = FromNat(MaxPage)
    /\ ReadsAs(sql.limit, FromNat(MaxPage + 2))

\* the page size asked of the builder, 0 when none was set
Requested == unwrap_or(builder.page_size, Zero)

\* C5: build with a non-empty source: a page_size of 0 (or none) gives 10;
\* 1..99 gives the page_size asked for; 100 or more fails with
\* InvalidPageSize of size 100.  Every query build returns has
\* 1 <= page_size <= 99.
C5_BuildPageSize ==
    /\ (pc = "built" /\ unwrap_or(builder.source, "") # "") =>
        /\ Requested = Zero =>
            built.ok /\ built.query.page_size = FromNat(10)
        /\ (Lt(Zero, Requested) /\ Lt(Requested, FromNat(100))) =>
            built.ok /\ built.query.page_size = Requested
        /\ Le(FromNat(100), Requested) =>
            /\ ~built.ok /\ built.err = "InvalidPageSize"
            /\ built.size = FromNat(100)
    /\ built.ok =>
        /\ Le(FromNat(1), built.query.page_size)
        /\ Le(built.query.page_size, FromNat(99))

\* a page size of u64::MAX was asked for and refused with size 100
C5_Witness ==
    /\ pc = "built"
    /\ builder.source = Some("users")
    /\ builder.page_size = Some(U64Max)
    /\ built.err = "InvalidPageSize" /\ built.size = FromNat(100)

\* C6 as stated: build with an empty or unset source fails with
\* InvalidSource for every page size asked for.
C6_EmptySourceAlwaysInvalidSource ==
    (pc = "built" /\ unwrap_or(builder.source, "") = "") =>
        ~built.ok /\ built.err = "InvalidSource"

\* C6 amended: build with an empty or unset source always fails: with
\* InvalidSource when the page size asked for is 0..99, and with
\* InvalidPageSize of size 100 when it is 100 or more.
C6_EmptySource ==
    (pc = "built" /\ unwrap_or(builder.source, "") = "") =>
        /\ ~built.ok
        /\ Lt(Requested, FromNat(100)) => built.err = "InvalidSource"
        /\ Le(FromNat(100), Requested) =>
            built.err = "InvalidPageSize" /\ built.size = FromNat(100)

\* an empty source and a page size of 100 were refused for the page size
C6_Witness ==
    /\ pc = "built"
    /\ builder.source = Some("")
    /\ builder.page_size = Some(FromNat(100))
    /\ ~built.ok /\ built.err = "InvalidPageSize"

\* the query's cursor token does not decode
Undecodable(self) == IsSome(self.cursor) /\ ~decode_u64(self.cursor[1]).ok

\* C7: a query whose cursor token does not decode behaves as the same query
\* without cursor: get_cursor is absent, to_sql renders LIMIT page_size + 1
\* and OFFSET 0, get_pager gives prev absent and next = page_size if any.
C7_UndecodableIsFirstPage ==
    Undecodable(query) =>
        /\ SqlQuery_get_cursor(query) = None
        /\ pc \in {"rendered", "to_sql aborted"} =>
            /\ ReadsAs(sql.offset, Zero)
            /\ LimitFits([query EXCEPT !.cursor = None]) =>
                /\ pc = "rendered"
                /\ \E lim \in {parse_u64(sql.limit).val} :
                    ReadsAs(sql.limit, lim) /\ IsSum(lim, query.page_size, 1)
        /\ pc = "paged" =>
            /\ pager.prev = None
            /\ IsSome(pager.next) => pager.next = Some(query.page_size)

\* C8: for every offset o, decode_u64(encode_u64(o)) succeeds and returns o
\* (the 32-byte buffer holds every token encode_u64 produces).
C8_RoundTrip ==
    pc = "decoded" => decoded.ok /\ decoded.val = offset

\* u64::MAX went through encode_u64 and decode_u64
C8_Witness ==
    /\ pc = "decoded" /\ offset = U64Max
    /\ Len(token) = 27
    /\ decoded.ok /\ decoded.val = U64Max

\* C9: next_page returns absent iff pager.next is absent; otherwise a query
\* with the same source, projection, filter, order and page_size whose
\* cursor token decodes to pager.next; the query it was called on is still
\* the one the pager was computed from.
C9_NextPage ==
    pc = "turned" =>
        /\ next_query = None <=> pager.next = None
        /\ IsSome(next_query) =>
            /\ next_query[1].source = query.source
            /\ next_query[1].projection = query.projection
            /\ next_query[1].filter = query.filter
            /\ next_query[1].order = query.order
            /\ next_query[1].page_size = query.page_size
            /\ IsSome(next_query[1].cursor)
            /\ decode_u64(next_query[1].cursor[1]).ok
            /\ Some(decode_u64(next_query[1].cursor[1]).val) = pager.next
        /\ SqlQuery_get_pager(query, fetched, overflow_checks).pager = pager

\* next_page gave the query of a second page that has a previous page
C9_Witness ==
    /\ pc = "turned"
    /\ IsSome(next_query)
    /\ IsSome(pager.prev)
    /\ IsSome(query.filter)
    /\ next_query[1].cursor # query.cursor

\* C10: from a built query without cursor (1 <= page_size <= 99), the cycle
\* to_sql, fetch, get_pager, next_page never aborts, and when next_page
\* returns absent the rows of the pages, in page order, are rows 1..table,
\* each once.
C10_EveryRowOnce ==
    (/\ first.cursor = None
     /\ Le(FromNat(1), first.page_size) /\ Le(first.page_size, FromNat(99)))
    =>  /\ pc \notin {"to_sql aborted", "get_pager aborted"}
        /\ (pc = "turned" /\ next_query = None) =>
            pages = generate_test_ids(1, table)
=============================================================================
